---- MODULE Spec2Model ----
(***************************************************************************)
(* A model of zabbix-cachet-v3.py: the status mapper, the incident         *)
(* lifecycle engine (triggers_watcher), the watcher thread                 *)
(* (triggers_watcher_worker) and the supervisor loop of __main__.          *)
(*                                                                         *)
(* Text is modelled as a sequence of tokens (strings); str.format,         *)
(* str.strip, "in" and "+" act on token sequences.  The status page        *)
(* (Cachet) is modelled by the records it stores: components and           *)
(* incidents.  The configuration is one with a non-empty "templates"       *)
(* section (lines 1031-1035); its investigating and resolving templates    *)
(* may be absent (empty), the acknowledgment template is the default.      *)
(***************************************************************************)
EXTENDS Integers, Sequences, FiniteSets, TLC

(***************************************************************************)
(* Bounds of the model.                                                    *)
(***************************************************************************)
\* the environment changes trigger/event data at most this many times
MaxChanges == 2
\* ticks are started only while the incident table holds fewer records
MaxIncidents == 2
\* the supervisor starts at most this many watcher threads
MaxThreads == 3
\* acknowledgments on one event
MaxAcks == 2
\* outer cycles of the supervisor loop in which the service tree may change
MaxCycles == 4
\* children of the service whose statuses are mapped
MaxChildren == 2
\* runs of the topology sync over one service tree
MaxRuns == 2
\* cycles of the main loop over the mapping lists as objects
MaxSnapCycles == 3

(***************************************************************************)
(* Enumerations, lines 29-54.                                              *)
(***************************************************************************)
OPERATIONAL == 1
PERFORMANCE_ISSUES == 2
PARTIAL_OUTAGE == 3
MAJOR_OUTAGE == 4
UNKNOWN == 5

INVESTIGATING == 1
IDENTIFIED == 2
FIXED == 4

AVERAGE == 3
HIGH == 4

\* The members of ZabbixServiceStatus, as enum members (not their values).
ZabbixServiceStatus ==
    { "ZabbixServiceStatus.OK", "ZabbixServiceStatus.NOT_CLASSIFIED",
      "ZabbixServiceStatus.INFORMATION", "ZabbixServiceStatus.WARNING",
      "ZabbixServiceStatus.AVERAGE", "ZabbixServiceStatus.HIGH",
      "ZabbixServiceStatus.DISASTER" }

\* The names CachetIncidentStatus defines; an attribute outside this set
\* raises AttributeError.
CachetIncidentStatusNames ==
    { "REPORTED", "INVESTIGATING", "IDENTIFIED", "WATCHING", "FIXED" }

\* mapping.get(zabbix_status, UNKNOWN).value: the dict is keyed by enum
\* members, so any other key (a raw number, a string, None) is unmapped.
map_zabbix_status_to_cachet_status_Swapped(zabbix_status) ==
    CASE zabbix_status = "ZabbixServiceStatus.OK" -> OPERATIONAL
      [] zabbix_status = "ZabbixServiceStatus.NOT_CLASSIFIED" -> UNKNOWN
      [] zabbix_status = "ZabbixServiceStatus.INFORMATION" -> OPERATIONAL
      [] zabbix_status = "ZabbixServiceStatus.WARNING" -> PARTIAL_OUTAGE
      [] zabbix_status = "ZabbixServiceStatus.AVERAGE" -> PERFORMANCE_ISSUES
      [] zabbix_status = "ZabbixServiceStatus.HIGH" -> MAJOR_OUTAGE
      [] zabbix_status = "ZabbixServiceStatus.DISASTER" -> MAJOR_OUTAGE
      [] OTHER -> UNKNOWN

map_zabbix_status_to_cachet_status(zabbix_status) ==
    CASE zabbix_status = "ZabbixServiceStatus.OK" -> OPERATIONAL
      [] zabbix_status = "ZabbixServiceStatus.NOT_CLASSIFIED" -> UNKNOWN
      [] zabbix_status = "ZabbixServiceStatus.INFORMATION" -> OPERATIONAL
      [] zabbix_status = "ZabbixServiceStatus.WARNING" -> PERFORMANCE_ISSUES
      [] zabbix_status = "ZabbixServiceStatus.AVERAGE" -> PARTIAL_OUTAGE
      [] zabbix_status = "ZabbixServiceStatus.HIGH" -> MAJOR_OUTAGE
      [] zabbix_status = "ZabbixServiceStatus.DISASTER" -> MAJOR_OUTAGE
      [] OTHER -> UNKNOWN

(***************************************************************************)
(* Text: token sequences.                                                  *)
(***************************************************************************)
Whitespace == { "\n", " " }

RECURSIVE LStrip(_)
LStrip(s) ==
    IF s # << >> /\ Head(s) \in Whitespace THEN LStrip(Tail(s)) ELSE s

RECURSIVE RStrip(_)
RStrip(s) ==
    IF s # << >> /\ s[Len(s)] \in Whitespace
    THEN RStrip(SubSeq(s, 1, Len(s) - 1))
    ELSE s

\* str.strip()
Strip(s) == RStrip(LStrip(s))

\* a in b, for strings
Contains(b, a) ==
    \E k \in 0..(Len(b) - Len(a)) : SubSeq(b, k + 1, k + Len(a)) = a

\* tmpl.format(**sub): every placeholder token is replaced by its value
RECURSIVE Format(_, _)
Format(tmpl, sub) ==
    IF tmpl = << >> THEN << >>
    ELSE (IF Head(tmpl) \in DOMAIN sub THEN sub[Head(tmpl)] ELSE << Head(tmpl) >>)
         \o Format(Tail(tmpl), sub)

\* datetime.fromtimestamp(clock, tz).strftime("%b %d, %H:%M"): the minute
\* the clock falls in; the seconds are dropped.
MinuteNames == << "Jan 01, 00:00", "Jan 01, 00:01", "Jan 01, 00:02", "Jan 01, 00:03" >>
Strftime(clock) == << MinuteNames[(clock \div 60) + 1] >>

ResolvedMarker == << "__Resolved__" >>

\* acknowledgement_tmpl_d, line 1030
acknowledgement_tmpl_d ==
    << "{message}", "\n", "######", "{ack_time}", "by", "{author}", "\n", "______", "\n" >>

\* the values templates.get("investigating", "") can take
InvestigatingTmpls ==
    { << >>,
      << "{group}", "{component}", "{time}", "{trigger_description}", "{trigger_name}", "\n" >> }

\* the values templates.get("resolving", "") can take: empty, with the
\* resolution marker, without it
ResolvingTmpls ==
    { << >>,
      << "__Resolved__", "{time}", "\n" >>,
      << "Closed", "{time}", "\n" >> }

(***************************************************************************)
(* The monitoring source (Zabbix) and the mapping.                         *)
(***************************************************************************)
TriggerIds == { 1, 2 }
ComponentIds == { 1, 2 }
Priorities == 0..5

\* trigger["description"], trigger["comments"]: trigger 2 has no comments
TriggerDescription(t) == IF t = 1 THEN << "web down" >> ELSE << "db down" >>
TriggerComments(t) == IF t = 1 THEN << "check nginx" >> ELSE << >>

\* the clock of the latest problem event of a trigger
EventClock(t) == 60 * t + 7

\* the k-th acknowledgment of an event (k = 1 is the oldest)
AckTexts == << "looking", "rebooting", "escalated", "vendor called" >>
AckOf(k) ==
    [ message |-> << AckTexts[k] >>, clock |-> 60 + 50 * k,
      name |-> "Ann", surname |-> "Lee" ]

\* Mapping entries as init_cachet builds them for the children of a group
\* (lines 860-865, 972-976): a key that the code does not set is absent.
EntryWeb ==
    [ triggerid |-> 1, component_id |-> 1, component_name |-> "web",
      group_id |-> 1, group_name |-> "Shop" ]
EntryDb ==
    [ triggerid |-> 2, component_id |-> 2, component_name |-> "db",
      group_id |-> 1, group_name |-> "Shop" ]
\* a second service of the same name: search-before-create by name binds
\* its trigger to the component of the first
EntryWebTwin ==
    [ triggerid |-> 2, component_id |-> 1, component_name |-> "web",
      group_id |-> 1, group_name |-> "Shop" ]
\* a child whose trigger could not be fetched during the sync: the empty
\* dict of line 962 with the group keys of lines 860-865
EntryStub == [ group_id |-> 1, group_name |-> "Shop" ]

VARIABLES
    zbx_available,      \* whether zapi.get_version() answers
    zbx_triggers,       \* trigger id -> what trigger.get yields for it
    zbx_events,         \* trigger id -> its latest problem event
    components,         \* Cachet: component id -> status value
    incidents,          \* Cachet: the incidents, by id (= position)
    cachet_http,        \* Cachet: how it answers a request
    investigating_tmpl, \* templates["investigating"]
    resolving_tmpl,     \* templates["resolving"]
    threads,            \* thread id -> the watcher thread's state
    event,              \* threading.Event: the cancellation flag
    inc_update_t,       \* the thread the supervisor holds
    zbxtr2cachet,       \* the mapping bound by the supervisor
    mainPc,             \* where the main thread is
    sync,               \* process_zbx_service_with_children: children, position
    hist                \* history of the run, read by the properties only

vars ==
    << zbx_available, zbx_triggers, zbx_events, components, incidents,
       cachet_http, investigating_tmpl, resolving_tmpl, threads, event, inc_update_t,
       zbxtr2cachet, mainPc, sync, hist >>

zbxVars == << zbx_available, zbx_triggers, zbx_events >>
cachetVars == << components, incidents, cachet_http >>
tmplVars == << investigating_tmpl, resolving_tmpl >>
mainVars == << event, inc_update_t, zbxtr2cachet, mainPc >>
NoSync == [ children |-> << >>, idx |-> 1 ]

(***************************************************************************)
(* Zabbix client.                                                          *)
(***************************************************************************)
\* Zabbix.get_trigger under pyzabbix_safe({}): a connection or API error
\* yields {}; an empty answer makes trigger[0] raise IndexError, which the
\* decorator does not catch.
get_trigger(triggerid) ==
    LET t == zbx_triggers[triggerid] IN
    CASE t.fetch = "error" -> [ exc |-> "", found |-> FALSE ]
      [] t.fetch = "missing" -> [ exc |-> "IndexError", found |-> FALSE ]
      [] OTHER ->
            [ exc |-> "", found |-> TRUE, triggerid |-> triggerid,
              value |-> t.value, priority |-> t.priority,
              description |-> TriggerDescription(triggerid),
              comments |-> TriggerComments(triggerid) ]

\* Zabbix.get_event: the last event, or an empty answer
get_event(triggerid) == zbx_events[triggerid]

(***************************************************************************)
(* Cachet client.  c is the stored state [components, incidents] with the  *)
(* number of write calls made so far in the tick step (calls).             *)
(***************************************************************************)
\* Cachet._http_get, lines 279-312: a status other than 200 ("status")
\* reaches sys.exit(1), which raises SystemExit in the calling thread; a
\* failed connection ("down") reaches "raise client_http_error(...)", which
\* raises None: a TypeError.
http_get_exc ==
    CASE cachet_http = "status" -> "SystemExit"
      [] cachet_http = "down" -> "TypeError"
      [] OTHER -> ""

NoIncident ==
    [ id |-> 0, component_id |-> 0, status |-> -1, name |-> << "Does not exist" >>,
      message |-> << >> ]

Min(S) == CHOOSE x \in S : \A y \in S : x <= y

\* Cachet.get_unresolved_incident: the first incident of the component
\* whose message does not contain "__Resolved__"
get_unresolved_incident(incs, component_id) ==
    LET ks == { k \in 1..Len(incs) :
                    /\ incs[k].component_id = component_id
                    /\ ~Contains(incs[k].message, ResolvedMarker) }
    IN  IF ks = {} THEN NoIncident ELSE incs[Min(ks)]

\* Cachet.upd_components: read-merge-write of the status
upd_components(c, id, status) ==
    [ c EXCEPT !.components = [ @ EXCEPT ![id] = status ],
               !.calls.upd_components = @ + 1 ]

new_incidents_PostOnly(c, params) ==
    LET inc == [ id |-> Len(c.incidents) + 1, component_id |-> params.component_id,
                 status |-> params.status, name |-> params.name,
                 message |-> params.message ]
    IN  [ c EXCEPT !.incidents = Append(@, inc), !.calls.new_incidents = @ + 1 ]

\* Cachet.new_incidents: POST, then the component update
new_incidents(c, params) ==
    LET inc == [ id |-> Len(c.incidents) + 1, component_id |-> params.component_id,
                 status |-> params.status, name |-> params.name,
                 message |-> params.message ]
        posted == [ c EXCEPT !.incidents = Append(@, inc),
                             !.calls.new_incidents = @ + 1 ]
    IN  IF "component_status" \in DOMAIN params
        THEN upd_components(posted, params.component_id, params.component_status)
        ELSE posted

\* Cachet.upd_incident: PUT of the given fields, then the component update;
\* params["component_id"] raises KeyError when the caller gave none.
upd_incident(c, id, params) ==
    LET put == [ c EXCEPT !.incidents =
                    [ @ EXCEPT ![id] = [ @ EXCEPT !.message = params.message,
                                                  !.status = params.status ] ],
                          !.calls.upd_incident = @ + 1 ]
    IN  IF "component_status" \in DOMAIN params
        THEN IF "component_id" \in DOMAIN params
             THEN [ c |-> upd_components(put, params.component_id,
                                         params.component_status),
                    exc |-> "" ]
             ELSE [ c |-> put, exc |-> "KeyError" ]
        ELSE [ c |-> put, exc |-> "" ]

(***************************************************************************)
(* triggers_watcher, lines 631-790: the body of the loop for one entry i.  *)
(* The result is the status page after it and the exception raised ("" if  *)
(* none): an exception leaves the loop and the function.                   *)
(***************************************************************************)
NoCalls == [ new_incidents |-> 0, upd_incident |-> 0, upd_components |-> 0 ]

\* attribute access on the enum class CachetIncidentStatus
CachetIncidentStatusAttr(attr, value) ==
    IF attr \in CachetIncidentStatusNames
    THEN [ exc |-> "", value |-> value ]
    ELSE [ exc |-> "AttributeError", value |-> 0 ]

\* lines 732-737
comp_status_of(priority) ==
    IF priority >= HIGH THEN [ exc |-> "", value |-> MAJOR_OUTAGE ]
    ELSE IF priority = AVERAGE
         THEN CachetIncidentStatusAttr("PARTIAL_OUTAGE", PARTIAL_OUTAGE)
         ELSE CachetIncidentStatusAttr("PERFORMANCE_ISSUES", PERFORMANCE_ISSUES)

\* lines 721-727: one acknowledgment rendered by the template
AckBlock(msg) ==
    Format(acknowledgement_tmpl_d,
           [ k \in { "{message}", "{ack_time}", "{author}" } |->
               CASE k = "{message}" -> msg.message
                 [] k = "{ack_time}" -> Strftime(msg.clock)
                 [] OTHER -> << msg.name, " ", msg.surname >> ])

\* lines 718-729: the loop over zbx_event["acknowledges"]
RECURSIVE MergeAcks(_, _)
MergeAcks(acks, inc_msg) ==
    IF acks = << >> THEN inc_msg
    ELSE LET ack_msg == AckBlock(Head(acks))
         IN  MergeAcks(Tail(acks),
                       IF ~Contains(inc_msg, ack_msg) THEN ack_msg \o inc_msg
                       ELSE inc_msg)

\* lines 666-702: the trigger is not active
WatchInactive_NoComponentId(i, c, now) ==
    IF c.components[i.component_id] = OPERATIONAL
    THEN [ c |-> c, exc |-> "" ]
    ELSE LET last_inc == get_unresolved_incident(c.incidents, i.component_id)
             inc_msg ==
                 IF resolving_tmpl # << >>
                 THEN Format(resolving_tmpl,
                             [ k \in { "{time}" } |-> Strftime(now) ])
                      \o last_inc.message
                 ELSE last_inc.message
         IN  IF last_inc.id # 0
             THEN upd_incident(c, last_inc.id,
                               [ status |-> FIXED,
                                 component_status |-> OPERATIONAL, message |-> inc_msg ])
             ELSE [ c |-> upd_components(c, i.component_id, OPERATIONAL), exc |-> "" ]

WatchInactive_NoEarlyReturn(i, c, now) ==
    LET last_inc == get_unresolved_incident(c.incidents, i.component_id)
        inc_msg ==
            IF resolving_tmpl # << >>
            THEN Format(resolving_tmpl,
                        [ k \in { "{time}" } |-> Strftime(now) ])
                 \o last_inc.message
            ELSE last_inc.message
    IN  IF last_inc.id # 0
        THEN upd_incident(c, last_inc.id,
                          [ status |-> FIXED, component_id |-> i.component_id,
                            component_status |-> OPERATIONAL, message |-> inc_msg ])
        ELSE [ c |-> upd_components(c, i.component_id, OPERATIONAL), exc |-> "" ]

WatchInactive(i, c, now) ==
    IF c.components[i.component_id] = OPERATIONAL
    THEN [ c |-> c, exc |-> "" ]
    ELSE LET last_inc == get_unresolved_incident(c.incidents, i.component_id)
             inc_msg ==
                 IF resolving_tmpl # << >>
                 THEN Format(resolving_tmpl,
                             [ k \in { "{time}" } |-> Strftime(now) ])
                      \o last_inc.message
                 ELSE last_inc.message
         IN  IF last_inc.id # 0
             THEN upd_incident(c, last_inc.id,
                               [ status |-> FIXED, component_id |-> i.component_id,
                                 component_status |-> OPERATIONAL, message |-> inc_msg ])
             ELSE [ c |-> upd_components(c, i.component_id, OPERATIONAL), exc |-> "" ]

\* lines 704-715: the event, or the mock {"acknowledged": "0"}
EventOrMock(triggerid) ==
    LET zbx_event == get_event(triggerid)
    IN  IF zbx_event = << >> THEN [ acknowledged |-> "0" ] ELSE zbx_event

\* lines 716-731
IncStatus(zbx_event) ==
    IF zbx_event.acknowledged = "1" THEN IDENTIFIED ELSE INVESTIGATING

AckMsg(zbx_event) ==
    IF zbx_event.acknowledged = "1" THEN MergeAcks(zbx_event.acknowledges, << >>)
    ELSE << >>

\* lines 739-758: the message, given what the acknowledgments left in it.
\* int(zbx_event.get("clock")) raises TypeError on the mock event.
IncMsg(i, trigger, zbx_event, ack_msg) ==
    IF ack_msg = << >> /\ investigating_tmpl # << >>
    THEN IF "clock" \in DOMAIN zbx_event
         THEN [ exc |-> "",
                msg |-> Format(investigating_tmpl,
                    [ k \in { "{group}", "{component}", "{time}",
                              "{trigger_description}", "{trigger_name}" } |->
                        CASE k = "{group}" ->
                                IF "group_name" \in DOMAIN i
                                THEN << i.group_name >> ELSE << >>
                          [] k = "{component}" -> << i.component_name >>
                          [] k = "{time}" -> Strftime(zbx_event.clock)
                          [] k = "{trigger_description}" -> trigger.comments
                          [] OTHER -> trigger.description ]) ]
         ELSE [ exc |-> "TypeError", msg |-> << >> ]
    ELSE IF ack_msg = << >> /\ trigger.comments # << >>
         THEN [ exc |-> "", msg |-> trigger.comments ]
         ELSE IF ack_msg = << >>
              THEN [ exc |-> "", msg |-> trigger.description ]
              ELSE [ exc |-> "", msg |-> ack_msg ]

\* lines 705, 760-761
IncName(i, trigger) ==
    IF "group_name" \in DOMAIN i
    THEN << i.group_name, " | " >> \o trigger.description
    ELSE trigger.description

\* lines 763-783: create the incident, or update it when the message changed
Reconcile_AlwaysCreate(i, c, inc_name, inc_msg, inc_status, comp_status) ==
    [ c |-> new_incidents(c, [ name |-> inc_name, message |-> inc_msg,
                               status |-> inc_status,
                               component_id |-> i.component_id,
                               component_status |-> comp_status ]),
      exc |-> "" ]

Reconcile_NoDebounce(i, c, inc_name, inc_msg, inc_status, comp_status) ==
    LET last_inc == get_unresolved_incident(c.incidents, i.component_id) IN
    IF last_inc.status = -1
    THEN [ c |-> new_incidents(c, [ name |-> inc_name, message |-> inc_msg,
                                    status |-> inc_status,
                                    component_id |-> i.component_id,
                                    component_status |-> comp_status ]),
           exc |-> "" ]
    ELSE IF last_inc.status \notin { -1, FIXED }
         THEN upd_incident(c, last_inc.id,
                           [ message |-> inc_msg, status |-> inc_status,
                             component_status |-> comp_status ])
         ELSE [ c |-> c, exc |-> "" ]

Reconcile(i, c, inc_name, inc_msg, inc_status, comp_status) ==
    LET last_inc == get_unresolved_incident(c.incidents, i.component_id) IN
    IF last_inc.status = -1
    THEN [ c |-> new_incidents(c, [ name |-> inc_name, message |-> inc_msg,
                                    status |-> inc_status,
                                    component_id |-> i.component_id,
                                    component_status |-> comp_status ]),
           exc |-> "" ]
    ELSE IF last_inc.status \notin { -1, FIXED }
              /\ Strip(last_inc.message) # Strip(inc_msg)
         THEN upd_incident(c, last_inc.id,
                           [ message |-> inc_msg, status |-> inc_status,
                             component_status |-> comp_status ])
         ELSE [ c |-> c, exc |-> "" ]

\* lines 703-783: the trigger is active
WatchActive(i, c, trigger) ==
    LET zbx_event == EventOrMock(i.triggerid)
        inc_status == IncStatus(zbx_event)
        comp_status == comp_status_of(trigger.priority)
        m == IncMsg(i, trigger, zbx_event, AckMsg(zbx_event))
    IN  IF comp_status.exc # "" THEN [ c |-> c, exc |-> comp_status.exc ]
        ELSE IF m.exc # "" THEN [ c |-> c, exc |-> m.exc ]
        ELSE IF http_get_exc # "" THEN [ c |-> c, exc |-> http_get_exc ]
        ELSE Reconcile(i, c, IncName(i, trigger), m.msg, inc_status,
                       comp_status.value)

\* lines 650-788: one iteration of "for i in service_map"
WatchEntry(i, c, now) ==
    IF "triggerid" \notin DOMAIN i THEN [ c |-> c, exc |-> "" ]
    ELSE LET trigger == get_trigger(i.triggerid) IN
         IF trigger.exc # "" THEN [ c |-> c, exc |-> trigger.exc ]
         ELSE IF ~trigger.found THEN [ c |-> c, exc |-> "" ]
         ELSE IF trigger.value = "0"
              THEN IF http_get_exc # "" THEN [ c |-> c, exc |-> http_get_exc ]
                   ELSE WatchInactive(i, c, now)
         ELSE IF trigger.value = "1" THEN WatchActive(i, c, trigger)
         ELSE [ c |-> c, exc |-> "" ]

(***************************************************************************)
(* The watcher thread, triggers_watcher_worker (lines 793-816).  A thread  *)
(* is "unstarted", at the loop head or asleep ("sleep"), inside            *)
(* triggers_watcher before entry idx ("tick"), or terminated ("dead").     *)
(***************************************************************************)
\* thread 0 is the Thread() of line 1052, which is never started
ThreadIds == 0..MaxThreads
NowClocks == { 130, 190 }

NoThread == [ pc |-> "unstarted", service_map |-> << >>, idx |-> 0 ]
Alive(th) == threads[th].pc \in { "sleep", "tick" }

AddCalls(a, b) ==
    [ new_incidents |-> a.new_incidents + b.new_incidents,
      upd_incident |-> a.upd_incident + b.upd_incident,
      upd_components |-> a.upd_components + b.upd_components ]

\* the record of a tick that thread th skipped at line 815
Skipped(th) == [ th |-> th, idx |-> 0, exc |-> "", calls |-> NoCalls ]

WorkerLoop_IgnoresEvent(th) ==
    /\ threads[th].pc = "sleep"
    /\ IF ~zbx_available
       THEN /\ UNCHANGED threads
            /\ hist' = [ hist EXCEPT !.last = Skipped(th) ]
       ELSE /\ Len(incidents) < MaxIncidents
            /\ threads' = IF threads[th].service_map = << >> THEN threads
                          ELSE [ threads EXCEPT ![th].pc = "tick", ![th].idx = 1 ]
            /\ hist' = [ hist EXCEPT !.stable = hist.ticked /\ ~hist.dirty,
                                     !.dirty = FALSE, !.ticked = TRUE,
                                     !.calls = NoCalls ]
    /\ UNCHANGED << sync, zbxVars, cachetVars, tmplVars, mainVars >>

WorkerLoop_NoProbe(th) ==
    /\ threads[th].pc = "sleep"
    /\ IF event
       THEN /\ threads' = [ threads EXCEPT ![th].pc = "dead" ]
            /\ UNCHANGED hist
       ELSE /\ Len(incidents) < MaxIncidents
            /\ threads' = IF threads[th].service_map = << >> THEN threads
                          ELSE [ threads EXCEPT ![th].pc = "tick", ![th].idx = 1 ]
            /\ hist' = [ hist EXCEPT !.stable = hist.ticked /\ ~hist.dirty,
                                     !.dirty = FALSE, !.ticked = TRUE,
                                     !.calls = NoCalls ]
    /\ UNCHANGED << sync, zbxVars, cachetVars, tmplVars, mainVars >>

\* lines 802-816: the loop condition, then the reachability probe; a tick
\* starts only when the probe answers, else the thread logs and sleeps
WorkerLoop(th) ==
    /\ threads[th].pc = "sleep"
    /\ IF event
       THEN /\ threads' = [ threads EXCEPT ![th].pc = "dead" ]
            /\ UNCHANGED hist
       ELSE IF ~zbx_available
       THEN /\ UNCHANGED threads
            /\ hist' = [ hist EXCEPT !.last = Skipped(th) ]
       ELSE /\ Len(incidents) < MaxIncidents
            /\ threads' = IF threads[th].service_map = << >> THEN threads
                          ELSE [ threads EXCEPT ![th].pc = "tick", ![th].idx = 1 ]
            /\ hist' = [ hist EXCEPT !.stable = hist.ticked /\ ~hist.dirty,
                                     !.dirty = FALSE, !.ticked = TRUE,
                                     !.calls = NoCalls ]
    /\ UNCHANGED << sync, zbxVars, cachetVars, tmplVars, mainVars >>

\* what the step read as the trigger's value ("" when it got no trigger)
SeenValue(i) ==
    IF "triggerid" \notin DOMAIN i THEN ""
    ELSE LET trigger == get_trigger(i.triggerid)
         IN  IF trigger.found THEN trigger.value ELSE ""

\* whether the step read an active trigger of priority HIGH whose event is
\* there and unacknowledged
SeenHighUnacked(i) ==
    /\ SeenValue(i) = "1"
    /\ zbx_triggers[i.triggerid].priority = HIGH
    /\ DOMAIN zbx_events[i.triggerid] # {}
    /\ zbx_events[i.triggerid].acknowledged = "0"

\* How far the entry is through the sequence: 1 its step created an
\* incident (id) for such a trigger, 2 its later steps on the same inputs
\* wrote nothing, 3 its step on the trigger gone inactive then updated an
\* incident.
NoScenario == [ stage |-> 0, id |-> 0 ]

ScenarioA(prev, i, r) ==
    IF SeenHighUnacked(i) /\ r.c.calls.new_incidents = 1
    THEN [ stage |-> 1, id |-> Len(r.c.incidents) ]
    ELSE IF prev.stage \in { 1, 2 } /\ SeenHighUnacked(i) /\ r.c.calls = NoCalls
            /\ r.exc = ""
         THEN [ stage |-> 2, id |-> prev.id ]
    ELSE IF prev.stage = 2 /\ SeenValue(i) = "0" /\ r.c.calls.upd_incident = 1
         THEN [ stage |-> 3, id |-> prev.id ]
    ELSE NoScenario

\* lines 806-815: one entry of the tick; an exception is logged and the
\* thread sleeps until the next tick
TickEntry(th) ==
    /\ threads[th].pc = "tick"
    /\ \E now \in NowClocks :
         LET me == threads[th]
             i == me.service_map[me.idx]
             r == WatchEntry(i, [ components |-> components,
                                  incidents |-> incidents,
                                  calls |-> NoCalls ], now)
         IN  /\ components' = r.c.components
             /\ incidents' = r.c.incidents
             /\ threads' =
                   IF r.exc = "SystemExit"
                   THEN [ threads EXCEPT ![th].pc = "dead", ![th].idx = 0 ]
                   ELSE IF r.exc # "" \/ me.idx = Len(me.service_map)
                   THEN [ threads EXCEPT ![th].pc = "sleep", ![th].idx = 0 ]
                   ELSE [ threads EXCEPT ![th].idx = me.idx + 1 ]
             /\ hist' = [ hist EXCEPT
                            !.calls = AddCalls(@, r.c.calls),
                            !.last = [ th |-> th, idx |-> me.idx, exc |-> r.exc,
                                       calls |-> r.c.calls ],
                            !.scenA[me.idx] = ScenarioA(@, i, r) ]
    /\ UNCHANGED << sync, zbxVars, tmplVars, mainVars, cachet_http >>

(***************************************************************************)
(* The environment: Zabbix data changes between ticks.                     *)
(***************************************************************************)
NoEvent == << >>
NewEvent(t) ==
    [ acknowledged |-> "0", acknowledges |-> << >>, clock |-> EventClock(t) ]

EnvReady ==
    /\ hist.changes < MaxChanges
    /\ \A th \in ThreadIds : threads[th].pc # "tick"

Changed == [ hist EXCEPT !.changes = @ + 1, !.dirty = TRUE ]

\* The trigger fires; its problem event is readable or not.  The priority
\* of a trigger is read by the tick only while the trigger is active, so a
\* change of priority made while it was inactive is folded into this step.
TriggerFire(t) ==
    /\ EnvReady
    /\ zbx_triggers[t].value = "0"
    /\ \E p \in Priorities :
          zbx_triggers' = [ zbx_triggers EXCEPT ![t].value = "1", ![t].priority = p ]
    /\ \E e \in { NoEvent, NewEvent(t) } :
          zbx_events' = [ zbx_events EXCEPT ![t] = e ]
    /\ hist' = Changed
    /\ UNCHANGED << sync, zbx_available, cachetVars, tmplVars, threads, mainVars >>

TriggerRecover(t) ==
    /\ EnvReady
    /\ zbx_triggers[t].value = "1"
    /\ zbx_triggers' = [ zbx_triggers EXCEPT ![t].value = "0" ]
    /\ hist' = Changed
    /\ UNCHANGED << sync, zbx_available, zbx_events, cachetVars, tmplVars, threads,
                    mainVars >>

\* operators acknowledge the event, once or more often before the next
\* tick; Zabbix lists the newest first
Acknowledge(t) ==
    /\ EnvReady
    /\ zbx_triggers[t].value = "1"
    /\ DOMAIN zbx_events[t] # {}
    /\ \E m \in 1..(MaxAcks - Len(zbx_events[t].acknowledges)) :
          zbx_events' =
             [ zbx_events EXCEPT ![t] =
                 [ @ EXCEPT !.acknowledged = "1",
                            !.acknowledges =
                                [ j \in 1..m |-> AckOf(Len(@) + m + 1 - j) ] \o @ ] ]
    /\ hist' = Changed
    /\ UNCHANGED << sync, zbx_available, zbx_triggers, cachetVars, tmplVars, threads,
                    mainVars >>

\* trigger.get starts or stops failing for a trigger: "error" is a
\* connection or API error, "missing" an empty answer (trigger deleted)
SetFetch(t) ==
    /\ EnvReady
    /\ \E f \in { "ok", "error", "missing" } :
          /\ f # zbx_triggers[t].fetch
          /\ zbx_triggers' = [ zbx_triggers EXCEPT ![t].fetch = f ]
    /\ hist' = Changed
    /\ UNCHANGED << sync, zbx_available, zbx_events, cachetVars, tmplVars, threads,
                    mainVars >>

\* the priority of an active trigger is changed
SetPriority(t) ==
    /\ EnvReady
    /\ zbx_triggers[t].value = "1"
    /\ \E p \in Priorities :
          /\ p # zbx_triggers[t].priority
          /\ zbx_triggers' = [ zbx_triggers EXCEPT ![t].priority = p ]
    /\ hist' = Changed
    /\ UNCHANGED << sync, zbx_available, zbx_events, cachetVars, tmplVars, threads,
                    mainVars >>

ZabbixToggle ==
    /\ EnvReady
    /\ zbx_available' = ~zbx_available
    /\ hist' = Changed
    /\ UNCHANGED << sync, zbx_triggers, zbx_events, cachetVars, tmplVars, threads,
                    mainVars >>

\* Cachet starts or stops answering: with a status other than 200, or not
\* at all
CachetToggle ==
    /\ EnvReady
    /\ \E h \in { "ok", "status", "down" } :
          h # cachet_http /\ cachet_http' = h
    /\ hist' = Changed
    /\ UNCHANGED << sync, zbxVars, components, incidents, tmplVars, threads,
                    mainVars >>

(***************************************************************************)
(* The supervisor loop of __main__, lines 1065-1103.  The main thread is   *)
(* before init_cachet ("sync"), in the wait loop ("wait"), before          *)
(* event.clear() ("clear"), before the thread start ("start"), in the      *)
(* sleep that ends a cycle ("sleep"), or has left through sys.exit(1)      *)
(* ("exited").  zbxtr2cachet starts as "", which like [] is falsy and      *)
(* differs from every non-empty mapping: it is modelled as << >>.          *)
(***************************************************************************)
\* the mappings init_cachet can return as the service tree changes
Candidates ==
    { << >>, << EntryWeb >>, << EntryWeb, EntryDb >> }

\* the record of the cycle: the candidate of the cycle before (m1), the
\* mapping bound when the cycle began (b0), the candidate (m2)
NewCycle(b0, m2) ==
    [ hist EXCEPT !.cycles = IF @ < MaxCycles THEN @ + 1 ELSE @,
                  !.m1 = hist.m2, !.b0 = b0, !.m2 = m2,
                  !.t0 = inc_update_t, !.e0 = event,
                  !.nSet = 0, !.nClear = 0, !.nStart = 0 ]

\* lines 1087-1091: the comparison, the rebinding and event.set()
Restart_ByIdentity(new, h) ==
    /\ zbxtr2cachet' = new
    /\ event' = TRUE
    /\ mainPc' = "wait"
    /\ hist' = [ h EXCEPT !.nSet = @ + 1 ]

Restart(new, h) ==
    IF zbxtr2cachet # new
    THEN /\ zbxtr2cachet' = new
         /\ event' = TRUE
         /\ mainPc' = "wait"
         /\ hist' = [ h EXCEPT !.nSet = @ + 1 ]
    ELSE /\ mainPc' = "sleep"
         /\ hist' = h
         /\ UNCHANGED << zbxtr2cachet, event >>

\* lines 1073-1085: an empty candidate ends the process on the first run and
\* is replaced by the bound mapping afterwards
OuterCycle_NoFallback(zbxtr2cachet_new) ==
    IF zbxtr2cachet_new = << >> /\ zbxtr2cachet = << >>
    THEN /\ mainPc' = "exited"
         /\ hist' = NewCycle(zbxtr2cachet, zbxtr2cachet_new)
         /\ UNCHANGED << zbxtr2cachet, event >>
    ELSE Restart(zbxtr2cachet_new, NewCycle(zbxtr2cachet, zbxtr2cachet_new))

OuterCycle_NoExit(zbxtr2cachet_new) ==
    IF zbxtr2cachet_new = << >>
    THEN Restart(zbxtr2cachet, NewCycle(zbxtr2cachet, zbxtr2cachet_new))
    ELSE Restart(zbxtr2cachet_new, NewCycle(zbxtr2cachet, zbxtr2cachet_new))

OuterCycle(zbxtr2cachet_new) ==
    IF zbxtr2cachet_new = << >>
    THEN IF zbxtr2cachet = << >>
         THEN /\ mainPc' = "exited"
              /\ hist' = NewCycle(zbxtr2cachet, zbxtr2cachet_new)
              /\ UNCHANGED << zbxtr2cachet, event >>
         ELSE Restart(zbxtr2cachet, NewCycle(zbxtr2cachet, zbxtr2cachet_new))
    ELSE Restart(zbxtr2cachet_new, NewCycle(zbxtr2cachet, zbxtr2cachet_new))

\* lines 1066-1091: one pass of "while True" up to the wait loop.  The
\* loop never ends; the service tree changes the mapping only in the first
\* MaxCycles cycles and while a thread id is left.
MainSync ==
    /\ mainPc = "sync"
    /\ \E zbxtr2cachet_new \in Candidates :
          /\ \/ zbxtr2cachet_new \in { << >>, zbxtr2cachet }
             \/ inc_update_t < MaxThreads /\ hist.cycles < MaxCycles
          /\ OuterCycle(zbxtr2cachet_new)
    /\ UNCHANGED << sync, zbxVars, cachetVars, tmplVars, threads, inc_update_t >>

\* lines 1093-1094: the wait loop is left when the held thread is not alive
WaitOver_NoJoin == TRUE

WaitOver == ~Alive(inc_update_t)

MainWait ==
    /\ mainPc = "wait"
    /\ WaitOver
    /\ mainPc' = "clear"
    /\ UNCHANGED << sync, zbxVars, cachetVars, tmplVars, threads, event, inc_update_t,
                    zbxtr2cachet, hist >>

MainClear_Missing ==
    /\ mainPc = "clear"
    /\ mainPc' = "start"
    /\ hist' = [ hist EXCEPT !.nClear = @ + 1 ]
    /\ UNCHANGED << sync, zbxVars, cachetVars, tmplVars, threads, inc_update_t,
                    zbxtr2cachet, event >>

\* line 1095
MainClear ==
    /\ mainPc = "clear"
    /\ event' = FALSE
    /\ mainPc' = "start"
    /\ hist' = [ hist EXCEPT !.nClear = @ + 1 ]
    /\ UNCHANGED << sync, zbxVars, cachetVars, tmplVars, threads, inc_update_t,
                    zbxtr2cachet >>

\* lines 1096-1102: a new thread object, bound to the mapping, is started
MainStart ==
    /\ mainPc = "start"
    /\ inc_update_t' = inc_update_t + 1
    /\ threads' = [ threads EXCEPT ![inc_update_t + 1] =
                      [ pc |-> "sleep", service_map |-> zbxtr2cachet, idx |-> 0 ] ]
    /\ mainPc' = "sleep"
    /\ hist' = [ hist EXCEPT !.nStart = @ + 1, !.dirty = TRUE,
                             !.scenA = [ k \in 1..2 |-> NoScenario ] ]
    /\ UNCHANGED << sync, zbxVars, cachetVars, tmplVars, event, zbxtr2cachet >>

\* line 1103
MainSleep ==
    /\ mainPc = "sleep"
    /\ mainPc' = "sync"
    /\ UNCHANGED << sync, zbxVars, cachetVars, tmplVars, threads, event, inc_update_t,
                    zbxtr2cachet, hist >>

(***************************************************************************)
(* The engine under a changing environment: one watcher thread bound to a  *)
(* mapping, as the supervisor leaves it after the first cycle.             *)
(***************************************************************************)
EngineMaps ==
    { << EntryWeb, EntryDb >>, << EntryWeb, EntryWebTwin >>,
      << EntryStub, EntryWeb >> }

NoHist ==
    [ changes |-> 0, dirty |-> FALSE, stable |-> FALSE, ticked |-> FALSE,
      calls |-> NoCalls,
      last |-> [ th |-> 0, idx |-> 0, exc |-> "", calls |-> NoCalls ],
      scenA |-> [ k \in 1..2 |-> NoScenario ],
      cycles |-> 0, m1 |-> << >>, b0 |-> << >>, m2 |-> << >>, t0 |-> 0, e0 |-> FALSE,
      nSet |-> 0, nClear |-> 0, nStart |-> 0 ]

Init ==
    /\ zbx_available = TRUE
    /\ zbx_triggers \in
          [ TriggerIds -> [ fetch : { "ok" }, value : { "0" }, priority : { 0 } ] ]
    /\ zbx_events = [ t \in TriggerIds |-> NoEvent ]
    /\ components \in [ ComponentIds -> { OPERATIONAL, UNKNOWN } ]
    /\ incidents = << >>
    /\ cachet_http = "ok"
    /\ investigating_tmpl \in InvestigatingTmpls
    /\ resolving_tmpl \in ResolvingTmpls
    /\ \E m \in EngineMaps :
          /\ threads = [ th \in ThreadIds |->
                           IF th = 1
                           THEN [ pc |-> "sleep", service_map |-> m, idx |-> 0 ]
                           ELSE NoThread ]
          /\ zbxtr2cachet = m
    /\ event = FALSE
    /\ inc_update_t = 1
    /\ mainPc = "sleep"
    /\ sync = NoSync
    /\ hist = NoHist

Next ==
    \/ \E th \in ThreadIds : WorkerLoop(th)
    \/ \E th \in ThreadIds : TickEntry(th)
    \/ \E t \in TriggerIds : TriggerFire(t)
    \/ \E t \in TriggerIds : TriggerRecover(t)
    \/ \E t \in TriggerIds : Acknowledge(t)
    \/ \E t \in TriggerIds : SetFetch(t)
    \/ \E t \in TriggerIds : SetPriority(t)
    \/ ZabbixToggle

Spec == Init /\ [][Next]_vars

\* The watcher thread is scheduled and its sleep returns: a loop or entry
\* step that stays possible is taken.
FairWatcher ==
    \A th \in ThreadIds : WF_vars(WorkerLoop(th)) /\ WF_vars(TickEntry(th))

\* one watcher over the mapping of a group with two children, every
\* component OPERATIONAL, the resolving template with its marker
InitLive ==
    /\ zbx_available = TRUE
    /\ zbx_triggers =
          [ t \in TriggerIds |-> [ fetch |-> "ok", value |-> "0", priority |-> 0 ] ]
    /\ zbx_events = [ t \in TriggerIds |-> NoEvent ]
    /\ components = [ c \in ComponentIds |-> OPERATIONAL ]
    /\ incidents = << >>
    /\ cachet_http = "ok"
    /\ investigating_tmpl \in InvestigatingTmpls
    /\ resolving_tmpl = << "__Resolved__", "{time}", "\n" >>
    /\ threads = [ th \in ThreadIds |->
                     IF th = 1
                     THEN [ pc |-> "sleep", service_map |-> << EntryWeb, EntryDb >>,
                            idx |-> 0 ]
                     ELSE NoThread ]
    /\ zbxtr2cachet = << EntryWeb, EntryDb >>
    /\ event = FALSE
    /\ inc_update_t = 1
    /\ mainPc = "sleep"
    /\ sync = NoSync
    /\ hist = NoHist

SpecLive == InitLive /\ [][Next]_vars /\ FairWatcher

(***************************************************************************)
(* The engine over a status page that can fail.                            *)
(***************************************************************************)
NextFault ==
    \/ Next
    \/ CachetToggle

SpecFault == Init /\ [][NextFault]_vars

(***************************************************************************)
(* The supervisor and its watcher threads over a quiet monitoring source:  *)
(* the process from its start, the trigger data fixed.                     *)
(***************************************************************************)
InitSup ==
    /\ zbx_available = TRUE
    /\ zbx_triggers \in
          [ TriggerIds -> [ fetch : { "ok" }, value : { "0", "1" }, priority : { HIGH } ] ]
    /\ zbx_events = [ t \in TriggerIds |-> NewEvent(t) ]
    /\ components = [ c \in ComponentIds |-> UNKNOWN ]
    /\ incidents = << >>
    /\ cachet_http = "ok"
    /\ investigating_tmpl = << >>
    /\ resolving_tmpl = << "__Resolved__", "{time}", "\n" >>
    /\ threads = [ th \in ThreadIds |-> NoThread ]
    /\ zbxtr2cachet = << >>
    /\ event = FALSE
    /\ inc_update_t = 0
    /\ mainPc = "sync"
    /\ sync = NoSync
    /\ hist = NoHist

NextSup ==
    \/ MainSync
    \/ MainWait
    \/ MainClear
    \/ MainStart
    \/ MainSleep
    \/ \E th \in ThreadIds : WorkerLoop(th)
    \/ \E th \in ThreadIds : TickEntry(th)

SpecSup == InitSup /\ [][NextSup]_vars

\* The threads of the process are scheduled by the operating system and
\* time.sleep returns: a step of the main thread or of a watcher thread
\* that stays possible is taken.
FairSup ==
    /\ WF_vars(MainWait)
    /\ WF_vars(MainClear)
    /\ WF_vars(MainStart)
    /\ \A th \in ThreadIds : WF_vars(WorkerLoop(th)) /\ WF_vars(TickEntry(th))

SpecSupLive == SpecSup /\ FairSup

\* The supervisor and its watcher threads over a status page that can
\* fail; the main thread is scheduled like the others.
NextSupFault ==
    \/ NextSup
    \/ CachetToggle

SpecSupFault ==
    /\ InitSup /\ [][NextSupFault]_vars
    /\ FairSup /\ WF_vars(MainSync) /\ WF_vars(MainSleep)

(***************************************************************************)
(* The status mapper over the children of a service, lines 846-850: each   *)
(* child's status is replaced by its mapped value.  A child's status is    *)
(* an enum member, a raw value as Zabbix delivers it, or None; it is       *)
(* written [raw |-> s] as delivered and [value |-> n] once mapped.         *)
(***************************************************************************)
StatusInputs ==
    ZabbixServiceStatus \cup { "-1", "0", "1", "2", "3", "4", "5", "None" }

MapDependency ==
    /\ sync.idx <= Len(sync.children)
    /\ sync' = [ sync EXCEPT
                   !.children[sync.idx].status =
                       [ value |-> map_zabbix_status_to_cachet_status(@.raw) ],
                   !.idx = @ + 1 ]
    /\ UNCHANGED << zbxVars, cachetVars, tmplVars, threads, mainVars, hist >>

InitMap ==
    /\ zbx_available = TRUE
    /\ zbx_triggers = [ t \in TriggerIds |->
                          [ fetch |-> "ok", value |-> "0", priority |-> 0 ] ]
    /\ zbx_events = [ t \in TriggerIds |-> NoEvent ]
    /\ components = [ c \in ComponentIds |-> UNKNOWN ]
    /\ incidents = << >>
    /\ cachet_http = "ok"
    /\ investigating_tmpl = << >>
    /\ resolving_tmpl = << >>
    /\ threads = [ th \in ThreadIds |-> NoThread ]
    /\ zbxtr2cachet = << >>
    /\ event = FALSE
    /\ inc_update_t = 0
    /\ mainPc = "sync"
    /\ sync \in [ children :
                      [ 1..MaxChildren -> [ status : [ raw : StatusInputs ] ] ],
                  idx : { 1 } ]
    /\ hist = NoHist

NextMap == MapDependency

SpecMap == InitMap /\ [][NextMap]_vars

(***************************************************************************)
(* The topology sync, init_cachet (lines 819-995), over a service tree.    *)
(* Cachet answers with resources that carry their fields under             *)
(* "attributes" (as lines 400, 669 and 975 read them); a component's group *)
(* (relationships.group.data.id) is written group_id.  In this             *)
(* specification sync is [services, s, idx, group, data, comps, groups,    *)
(* pc, exc, runs, prev]: the tree, the position in it, the group of the    *)
(* service being processed, the mapping built so far, Cachet's components  *)
(* and groups, whether init_cachet runs ("service", "child"), has returned *)
(* ("done") or has raised ("failed"), the number of the run and the        *)
(* mapping the run before returned.                                        *)
(***************************************************************************)
\* str.split(":") on a token sequence
RECURSIVE Split(_)
Split(s) ==
    IF s = << >> THEN << >>
    ELSE IF Head(s) = ":" THEN Split(Tail(s))
    ELSE << Head(s) >> \o Split(Tail(s))

\* the trigger a textual id names (0: none)
TriggerOfText(t) == IF t = "1" THEN 1 ELSE IF t = "2" THEN 2 ELSE 0

\* zapi.get_trigger on a textual id: an id Zabbix does not know is an
\* empty answer
get_trigger_text(t) ==
    IF TriggerOfText(t) \in TriggerIds THEN get_trigger(TriggerOfText(t))
    ELSE [ exc |-> "IndexError", found |-> FALSE ]

\* Cachet.find_component_by_name: the first component of that name
find_component_by_name(comps, name) ==
    LET ks == { k \in 1..Len(comps) : comps[k].attributes.name = name }
    IN  IF ks = {} THEN 0 ELSE Min(ks)

\* Cachet.new_components: the component of that name if it is in the
\* group, else a new one
new_components(comps, name, component_group_id, status) ==
    LET k == find_component_by_name(comps, name) IN
    IF k # 0 /\ comps[k].group_id = component_group_id
    THEN [ comps |-> comps, component |-> comps[k] ]
    ELSE LET made == [ id |-> Len(comps) + 1, group_id |-> component_group_id,
                       attributes |-> [ name |-> name, status |-> status ] ]
         IN  [ comps |-> Append(comps, made), component |-> made ]

\* Cachet.new_components_gr: the group of that name, created if missing
new_components_gr(groups, name) ==
    LET ks == { k \in 1..Len(groups) : groups[k] = name } IN
    IF ks = {} THEN [ groups |-> Append(groups, name), id |-> Len(groups) + 1 ]
    ELSE [ groups |-> groups, id |-> Min(ks) ]

EmptyDict == [ k \in {} |-> 0 ]

\* lines 950-976
process_dependency_with_triggerid(dependency, group, comps) ==
    LET trigger == get_trigger(dependency.triggerid) IN
    IF trigger.exc # "" THEN [ exc |-> trigger.exc, comps |-> comps, i |-> EmptyDict ]
    ELSE IF ~trigger.found THEN [ exc |-> "", comps |-> comps, i |-> EmptyDict ]
    ELSE LET n == new_components(comps, dependency.name, group, dependency.status)
         IN  [ exc |-> "", comps |-> n.comps,
               i |-> [ triggerid |-> dependency.triggerid,
                       component_id |-> n.component.id,
                       component_name |-> n.component.attributes.name ] ]

\* lines 914-947: the first tag with a value whose trigger can be fetched
RECURSIVE process_dependency_with_problem_tags(_, _, _, _)
process_dependency_with_problem_tags(tags, dependency, group, comps) ==
    IF tags = << >> THEN [ exc |-> "", comps |-> comps, i |-> EmptyDict ]
    ELSE IF Head(tags).value = << >>
    THEN process_dependency_with_problem_tags(Tail(tags), dependency, group, comps)
    ELSE LET trigger_id == Split(Head(tags).value)
             trigger == get_trigger_text(trigger_id[1])
         IN  IF trigger.exc # ""
             THEN [ exc |-> trigger.exc, comps |-> comps, i |-> EmptyDict ]
             ELSE IF ~trigger.found
             THEN IF "triggerid" \notin DOMAIN dependency
                  THEN [ exc |-> "KeyError", comps |-> comps, i |-> EmptyDict ]
                  ELSE process_dependency_with_problem_tags(Tail(tags), dependency,
                                                            group, comps)
             ELSE LET n == new_components(comps, dependency.name, group,
                                          dependency.status)
                  IN  [ exc |-> "", comps |-> n.comps,
                        i |-> [ triggerid |-> trigger_id,
                                component_id |-> n.component.id,
                                component_name |-> n.component.attributes.name ] ]

\* lines 979-995: component["name"] is read on a resource that has its
\* name under "attributes"
process_dependency_without_trigger(dependency, group, comps) ==
    LET n == new_components(comps, dependency.name, group, dependency.status)
    IN  [ exc |-> "KeyError", comps |-> n.comps, i |-> EmptyDict ]

\* lines 846-866: one child of a service with children
process_dependency(dep, group, group_name, comps) ==
    LET dependency ==
            [ dep EXCEPT !.status = map_zabbix_status_to_cachet_status(@) ]
        r == IF dependency.problem_tags # << >>
             THEN process_dependency_with_problem_tags(dependency.problem_tags,
                                                       dependency, group, comps)
             ELSE IF "triggerid" \in DOMAIN dependency
             THEN process_dependency_with_triggerid(dependency, group, comps)
             ELSE process_dependency_without_trigger(dependency, group, comps)
    IN  [ exc |-> r.exc, comps |-> r.comps,
          i |-> [ k \in DOMAIN r.i \cup { "group_id", "group_name" } |->
                    CASE k = "group_id" -> group
                      [] k = "group_name" -> group_name
                      [] OTHER -> r.i[k] ] ]

\* lines 871-911: a service without children
process_zbx_service_without_children(zbx_service, comps) ==
    IF "triggerid" \notin DOMAIN zbx_service
    THEN [ exc |-> "", comps |-> comps ]
    ELSE LET trigger == get_trigger(zbx_service.triggerid) IN
         IF trigger.exc # "" THEN [ exc |-> trigger.exc, comps |-> comps ]
         ELSE IF ~trigger.found THEN [ exc |-> "", comps |-> comps ]
         ELSE [ exc |-> "KeyError",
                comps |-> new_components(comps, zbx_service.name, 0, 1).comps ]

\* the position after the service s
AfterService(s) ==
    IF s = Len(sync.services) THEN [ pc |-> "done", s |-> s ]
    ELSE [ pc |-> "service", s |-> s + 1 ]

\* lines 828-832 and 844: the next service of the tree
SyncService ==
    /\ sync.pc = "service"
    /\ LET zbx_service == sync.services[sync.s] IN
       IF zbx_service.children # << >>
       THEN LET g == new_components_gr(sync.groups, zbx_service.name)
            IN  sync' = [ sync EXCEPT !.groups = g.groups, !.group = g.id,
                                      !.pc = "child", !.idx = 1 ]
       ELSE LET r == process_zbx_service_without_children(zbx_service, sync.comps)
            IN  sync' = [ sync EXCEPT
                            !.comps = r.comps, !.exc = r.exc,
                            !.pc = IF r.exc # "" THEN "failed"
                                   ELSE AfterService(sync.s).pc,
                            !.s = IF r.exc # "" THEN @ ELSE AfterService(sync.s).s ]
    /\ UNCHANGED << zbxVars, cachetVars, tmplVars, threads, mainVars, hist >>

\* lines 846-866: the next child of the service
SyncDependency ==
    /\ sync.pc = "child"
    /\ LET zbx_service == sync.services[sync.s]
           r == process_dependency(zbx_service.children[sync.idx], sync.group,
                                   zbx_service.name, sync.comps)
           last == sync.idx = Len(zbx_service.children)
       IN  sync' =
             IF r.exc # ""
             THEN [ sync EXCEPT !.comps = r.comps, !.exc = r.exc, !.pc = "failed" ]
             ELSE [ sync EXCEPT
                      !.comps = r.comps,
                      !.data = Append(@, r.i),
                      !.idx = IF last THEN 1 ELSE @ + 1,
                      !.pc = IF last THEN AfterService(sync.s).pc ELSE @,
                      !.s = IF last THEN AfterService(sync.s).s ELSE @ ]
    /\ UNCHANGED << zbxVars, cachetVars, tmplVars, threads, mainVars, hist >>

\* line 1072 in the next cycle of the main loop: init_cachet is called
\* again over the same tree
SyncAgain ==
    /\ sync.pc = "done"
    /\ sync.runs < MaxRuns
    /\ sync' = [ sync EXCEPT !.pc = "service", !.s = 1, !.idx = 1, !.group = 0,
                             !.data = << >>, !.runs = @ + 1, !.prev = sync.data ]
    /\ UNCHANGED << zbxVars, cachetVars, tmplVars, threads, mainVars, hist >>

\* children as service.get delivers them
StatusRaws == { "-1", "2" }
Dependencies ==
    [ serviceid : { 11 }, name : { "web" }, triggerid : { 1 }, status : StatusRaws,
      problem_tags : { << >> } ]
    \cup [ serviceid : { 12 }, name : { "db" }, triggerid : { 2 }, status : { "2" },
           problem_tags : { << >> } ]
    \cup [ serviceid : { 13 }, name : { "api" }, status : { "-1" },
           problem_tags : { << >> } ]
    \cup [ serviceid : { 14 }, name : { "cache" }, status : { "2" },
           problem_tags : { << [ tag |-> "trigger", value |-> << >> ],
                               [ tag |-> "trigger", value |-> << "2", ":", "x" >> ] >> } ]
    \cup [ serviceid : { 15 }, name : { "queue" }, triggerid : { 1 }, status : { "2" },
           problem_tags : { << [ tag |-> "trigger", value |-> << >> ] >> } ]

Services ==
    [ name : { "Shop" }, children : [ 1..MaxChildren -> Dependencies ] ]
    \cup [ name : { "Lab" }, children : [ 1..1 -> Dependencies ] ]
    \cup [ name : { "mail" }, children : { << >> }, triggerid : { 1 } ]

InitSync ==
    /\ zbx_available = TRUE
    /\ zbx_triggers \in
          [ TriggerIds ->
              [ fetch : { "ok", "error", "missing" }, value : { "0" }, priority : { 0 } ] ]
    /\ zbx_events = [ t \in TriggerIds |-> NoEvent ]
    /\ components = [ c \in ComponentIds |-> UNKNOWN ]
    /\ incidents = << >>
    /\ cachet_http = "ok"
    /\ investigating_tmpl = << >>
    /\ resolving_tmpl = << >>
    /\ threads = [ th \in ThreadIds |-> NoThread ]
    /\ zbxtr2cachet = << >>
    /\ event = FALSE
    /\ inc_update_t = 0
    /\ mainPc = "sync"
    /\ \E tree \in { << a >> : a \in Services }
                      \cup { << a, b >> : a \in Services, b \in Services } :
          sync = [ services |-> tree, s |-> 1, idx |-> 1, group |-> 0,
                   data |-> << >>, comps |-> << >>, groups |-> << >>,
                   pc |-> "service", exc |-> "", runs |-> 1, prev |-> << >> ]
    /\ hist = NoHist

NextSync ==
    \/ SyncService
    \/ SyncDependency
    \/ SyncAgain

SpecSync == InitSync /\ [][NextSync]_vars

(***************************************************************************)
(* The mapping lists as objects.  Python binds names and thread arguments  *)
(* to list objects, so a list changed in place is changed for every holder *)
(* of it.  In this specification sync is [heap, zbxtr2cachet,              *)
(* zbxtr2cachet_new, tree, pc, event, cycles, worker]: the list objects    *)
(* made so far (a reference is an index into heap, 0 is the string "" of   *)
(* line 1065), the two names of the main thread, the mapping the running   *)
(* init_cachet is building, the position of the main thread, the           *)
(* cancellation flag, the cycles begun, and the watcher thread with the    *)
(* reference it was started with and the entries it found at its start.    *)
(***************************************************************************)
NoWorker == [ pc |-> "unstarted", service_map |-> 0, idx |-> 0, bound |-> << >> ]

\* the value of a reference ("" is falsy like the empty list)
Deref(ref) == IF ref = 0 THEN << >> ELSE sync.heap[ref]

\* line 827 written as clearing and refilling the bound list
SnapAlloc_InPlace(tree) ==
    IF sync.zbxtr2cachet = 0
    THEN [ sync EXCEPT !.heap = Append(@, << >>),
                       !.zbxtr2cachet_new = Len(sync.heap) + 1,
                       !.tree = tree, !.pc = "extend", !.cycles = @ + 1 ]
    ELSE [ sync EXCEPT !.heap[sync.zbxtr2cachet] = << >>,
                       !.zbxtr2cachet_new = sync.zbxtr2cachet,
                       !.tree = tree, !.pc = "extend", !.cycles = @ + 1 ]

\* line 827: data = [], a new list object
SnapAlloc(tree) ==
    [ sync EXCEPT !.heap = Append(@, << >>),
                  !.zbxtr2cachet_new = Len(sync.heap) + 1,
                  !.tree = tree, !.pc = "extend", !.cycles = @ + 1 ]

\* lines 1066-1072 and 827: a cycle begins, init_cachet is entered
SnapSync ==
    /\ sync.pc = "sync"
    /\ sync.cycles < MaxSnapCycles
    /\ \E tree \in Candidates : sync' = SnapAlloc(tree)
    /\ UNCHANGED << zbxVars, cachetVars, tmplVars, threads, mainVars, hist >>

\* lines 828-834 and 866: the entries are put into the list one by one,
\* then the list is returned
SnapExtend ==
    /\ sync.pc = "extend"
    /\ LET data == sync.zbxtr2cachet_new IN
       sync' = IF Len(sync.heap[data]) < Len(sync.tree)
               THEN [ sync EXCEPT !.heap[data] =
                                     Append(@, sync.tree[Len(@) + 1]) ]
               ELSE [ sync EXCEPT !.pc = "compare" ]
    /\ UNCHANGED << zbxVars, cachetVars, tmplVars, threads, mainVars, hist >>

\* lines 1073-1091: the fallback binds the second name to the bound list;
\* the comparison is by value; the rebinding copies the reference
SnapCompare ==
    /\ sync.pc = "compare"
    /\ LET new == IF Deref(sync.zbxtr2cachet_new) = << >>
                  THEN sync.zbxtr2cachet ELSE sync.zbxtr2cachet_new
       IN  sync' =
             IF Deref(sync.zbxtr2cachet_new) = << >> /\ Deref(sync.zbxtr2cachet) = << >>
             THEN [ sync EXCEPT !.pc = "exited" ]
             ELSE IF Deref(sync.zbxtr2cachet) # Deref(new)
             THEN [ sync EXCEPT !.zbxtr2cachet_new = new, !.zbxtr2cachet = new,
                                !.event = TRUE, !.pc = "wait" ]
             ELSE [ sync EXCEPT !.zbxtr2cachet_new = new, !.pc = "sleep" ]
    /\ UNCHANGED << zbxVars, cachetVars, tmplVars, threads, mainVars, hist >>

\* lines 1093-1102: the wait, event.clear() and the start of a thread that
\* gets the reference as its argument
SnapStart ==
    /\ sync.pc = "wait"
    /\ sync.worker.pc \in { "unstarted", "dead" }
    /\ sync' = [ sync EXCEPT
                   !.event = FALSE, !.pc = "sleep",
                   !.worker = [ pc |-> "sleep", service_map |-> sync.zbxtr2cachet,
                                idx |-> 0, bound |-> Deref(sync.zbxtr2cachet) ] ]
    /\ UNCHANGED << zbxVars, cachetVars, tmplVars, threads, mainVars, hist >>

\* line 1103
SnapSleep ==
    /\ sync.pc = "sleep"
    /\ sync' = [ sync EXCEPT !.pc = "sync" ]
    /\ UNCHANGED << zbxVars, cachetVars, tmplVars, threads, mainVars, hist >>

\* lines 802-807: the loop head of the watcher and the call of the tick
SnapWorkerLoop ==
    /\ sync.worker.pc = "sleep"
    /\ sync.event \/ Deref(sync.worker.service_map) # << >>
    /\ sync' = IF sync.event THEN [ sync EXCEPT !.worker.pc = "dead" ]
               ELSE [ sync EXCEPT !.worker.pc = "tick", !.worker.idx = 1 ]
    /\ UNCHANGED << zbxVars, cachetVars, tmplVars, threads, mainVars, hist >>

\* lines 650-656 and 788: "for i in service_map" reads the list at the
\* position of the iterator and ends when the position is past its end;
\* the body reads the entry and writes neither the entry nor the list
SnapTick ==
    /\ sync.worker.pc = "tick"
    /\ sync' = IF sync.worker.idx < Len(Deref(sync.worker.service_map))
               THEN [ sync EXCEPT !.worker.idx = @ + 1 ]
               ELSE [ sync EXCEPT !.worker.pc = "sleep", !.worker.idx = 0 ]
    /\ UNCHANGED << zbxVars, cachetVars, tmplVars, threads, mainVars, hist >>

InitSnap ==
    /\ zbx_available = TRUE
    /\ zbx_triggers = [ t \in TriggerIds |->
                          [ fetch |-> "ok", value |-> "0", priority |-> 0 ] ]
    /\ zbx_events = [ t \in TriggerIds |-> NoEvent ]
    /\ components = [ c \in ComponentIds |-> UNKNOWN ]
    /\ incidents = << >>
    /\ cachet_http = "ok"
    /\ investigating_tmpl = << >>
    /\ resolving_tmpl = << >>
    /\ threads = [ th \in ThreadIds |-> NoThread ]
    /\ zbxtr2cachet = << >>
    /\ event = FALSE
    /\ inc_update_t = 0
    /\ mainPc = "sync"
    /\ sync = [ heap |-> << >>, zbxtr2cachet |-> 0, zbxtr2cachet_new |-> 0,
                tree |-> << >>, pc |-> "sync", event |-> FALSE, cycles |-> 0,
                worker |-> NoWorker ]
    /\ hist = NoHist

NextSnap ==
    \/ SnapSync
    \/ SnapExtend
    \/ SnapCompare
    \/ SnapStart
    \/ SnapSleep
    \/ SnapWorkerLoop
    \/ SnapTick

SpecSnap == InitSnap /\ [][NextSnap]_vars

(***************************************************************************)
(* Properties.                                                             *)
(***************************************************************************)
\* an incident is unresolved: its status is not Fixed and its message
\* lacks the resolution marker
Unresolved(inc) ==
    inc.status # FIXED /\ ~Contains(inc.message, ResolvedMarker)

UnresolvedOf(incs, component_id) ==
    { k \in 1..Len(incs) :
        incs[k].component_id = component_id /\ Unresolved(incs[k]) }

\* the step is thread th processing one entry of its tick
TickStep(th) == threads[th].pc = "tick" /\ threads'[th] # threads[th]

Entry(th) == threads[th].service_map[threads[th].idx]

\* the step of th processes an entry with a trigger, read with this value
TickOn(th, value) ==
    /\ TickStep(th)
    /\ "triggerid" \in DOMAIN Entry(th)
    /\ SeenValue(Entry(th)) = value

\* C1: every component has at most one unresolved incident, and a tick
\* step on an active trigger whose component has an unresolved incident
\* creates no incident and changes no incident but that one.
C1_Uniqueness ==
    [][ /\ \A c \in ComponentIds : Cardinality(UnresolvedOf(incidents', c)) <= 1
        /\ \A th \in ThreadIds :
              TickOn(th, "1")
              /\ UnresolvedOf(incidents, Entry(th).component_id) # {}
              => /\ Len(incidents') = Len(incidents)
                 /\ \A k \in 1..Len(incidents) :
                       k \notin UnresolvedOf(incidents, Entry(th).component_id)
                       => incidents'[k] = incidents[k] ]_vars

\* the last step updated the unresolved incident of an active trigger's
\* component instead of creating a second one
C1_Witness ==
    /\ hist.last.calls.upd_incident = 1
    /\ hist.last.calls.new_incidents = 0
    /\ \E c \in ComponentIds :
          /\ Cardinality(UnresolvedOf(incidents, c)) = 1
          /\ \E k \in UnresolvedOf(incidents, c) : incidents[k].status = IDENTIFIED

\* C2: a tick that starts with the trigger and event data as the tick
\* before it saw them makes no incident creation, no incident update and no
\* component update.
C2_Idempotence == hist.stable => hist.calls = NoCalls

\* the resolution text rendered at the time of the step
ResolutionText(now) ==
    IF resolving_tmpl # << >>
    THEN Format(resolving_tmpl, [ k \in { "{time}" } |-> Strftime(now) ])
    ELSE << >>

SoleEntry(th) ==
    \A k \in 1..Len(threads[th].service_map) :
        k # threads[th].idx /\ "component_id" \in DOMAIN threads[th].service_map[k]
        => threads[th].service_map[k].component_id # Entry(th).component_id

C5_UnreadableSkipped ==
    [][ \A th \in ThreadIds :
          ( /\ TickStep(th)
            /\ "triggerid" \in DOMAIN Entry(th)
            /\ zbx_triggers[Entry(th).triggerid].fetch # "ok" )
          => /\ UNCHANGED << components, incidents >>
             /\ threads[th].idx < Len(threads[th].service_map)
                => /\ threads'[th].pc = "tick"
                   /\ threads'[th].idx = threads[th].idx + 1 ]_vars

\* the component status the claim gives for a priority
StatusForPriority(priority) ==
    IF priority >= 4 THEN MAJOR_OUTAGE
    ELSE IF priority = 3 THEN PARTIAL_OUTAGE
    ELSE PERFORMANCE_ISSUES

\* C6: a tick step on an active trigger, its event readable and its
\* component without incident, completes and leaves the component with
\* MAJOR_OUTAGE for a priority of 4 or more, PARTIAL_OUTAGE for 3 and
\* PERFORMANCE_ISSUES otherwise.
C6_PriorityStatus ==
    [][ \A th \in ThreadIds :
          ( /\ TickOn(th, "1")
            /\ DOMAIN zbx_events[Entry(th).triggerid] # {}
            /\ \A k \in 1..Len(incidents) :
                  incidents[k].component_id # Entry(th).component_id )
          => /\ hist'.last.exc = ""
             /\ components'[Entry(th).component_id] =
                   StatusForPriority(zbx_triggers[Entry(th).triggerid].priority) ]_vars

\* the table of the status mapper as stated
MappedStatus(s) ==
    IF s \in { "ZabbixServiceStatus.OK", "ZabbixServiceStatus.INFORMATION" }
    THEN OPERATIONAL
    ELSE IF s = "ZabbixServiceStatus.WARNING" THEN PERFORMANCE_ISSUES
    ELSE IF s = "ZabbixServiceStatus.AVERAGE" THEN PARTIAL_OUTAGE
    ELSE IF s \in { "ZabbixServiceStatus.HIGH", "ZabbixServiceStatus.DISASTER" }
    THEN MAJOR_OUTAGE
    ELSE UNKNOWN

\* C7: mapping a child's status yields OPERATIONAL for OK and INFORMATION,
\* PERFORMANCE_ISSUES for WARNING, PARTIAL_OUTAGE for AVERAGE, MAJOR_OUTAGE
\* for HIGH and DISASTER, UNKNOWN for NOT_CLASSIFIED and for every other
\* input, and changes nothing but that child's status.
C7_StatusMapper ==
    [][ sync.idx <= Len(sync.children) =>
          /\ sync'.children[sync.idx].status =
                [ value |-> MappedStatus(sync.children[sync.idx].status.raw) ]
          /\ \A k \in 1..Len(sync.children) :
                k # sync.idx => sync'.children[k] = sync.children[k]
          /\ Len(sync'.children) = Len(sync.children)
          /\ UNCHANGED << zbxVars, cachetVars, tmplVars, threads, mainVars >> ]_vars

\* all children are mapped: a WARNING gave PERFORMANCE_ISSUES and an input
\* outside the table gave UNKNOWN
C7_Witness ==
    /\ sync.idx = MaxChildren + 1
    /\ sync.children[1].status = [ value |-> PERFORMANCE_ISSUES ]
    /\ sync.children[MaxChildren].status = [ value |-> UNKNOWN ]

\* C8: at most one watcher thread is alive, and a thread is started only
\* when no watcher thread is alive.
C8_OneWatcher ==
    [][ /\ Cardinality({ th \in ThreadIds :
                           threads'[th].pc \in { "sleep", "tick" } }) <= 1
        /\ \A th \in ThreadIds :
              threads[th].pc = "unstarted" /\ threads'[th].pc # "unstarted"
              => \A other \in ThreadIds : ~Alive(other) ]_vars

\* a second watcher runs after the first has terminated
C8_Witness ==
    /\ threads[1].pc = "dead"
    /\ threads[2].pc = "tick"

\* whether the cycle on record is over
CycleOver == mainPc \in { "sleep", "sync" }

\* the supervisor took no restart action in the cycle on record
NoRestart ==
    /\ hist.nSet = 0 /\ hist.nClear = 0 /\ hist.nStart = 0
    /\ inc_update_t = hist.t0
    /\ event = hist.e0
    /\ Alive(hist.t0)

\* the supervisor made one restart in the cycle on record: one
\* cancellation, the old thread terminated before the flag was cleared, and
\* one start of a thread bound to the candidate
Restarted ==
    /\ hist.nSet = 1 /\ hist.nClear = 1 /\ hist.nStart = 1
    /\ ~Alive(hist.t0)
    /\ inc_update_t = hist.t0 + 1
    /\ threads[inc_update_t].service_map = hist.m2
    /\ zbxtr2cachet = hist.m2

\* C9 as stated: after a cycle with candidate M2 that follows a cycle with
\* candidate M1, no restart action was taken if M2 equals M1, and exactly
\* one stop and one start bound to M2 were made if M2 differs from M1.
C9_RestartOnChange ==
    hist.cycles >= 2 /\ CycleOver =>
        IF hist.m2 = hist.m1 THEN NoRestart ELSE Restarted

\* C9, amended: with B the mapping bound when the cycle of M2 begins, no
\* restart action is taken if M2 is empty or equals B, and exactly one stop
\* followed by one start bound to M2 is made if M2 is non-empty and differs
\* from B; the start comes after the old thread has terminated.
C9_RestartOnChange_Amended ==
    hist.cycles >= 2 =>
        IF hist.m2 = << >> \/ hist.m2 = hist.b0
        THEN CycleOver /\ NoRestart /\ zbxtr2cachet = hist.b0
        ELSE /\ hist.nSet = 1
             /\ mainPc \in { "clear", "start" } => ~Alive(hist.t0)
             /\ mainPc = "start" => hist.nClear = 1 /\ hist.nStart = 0
             /\ CycleOver => Restarted

\* a cycle whose candidate differed from the bound mapping ended with the
\* new thread running
C9_Witness ==
    /\ hist.cycles >= 2
    /\ mainPc = "sleep"
    /\ hist.m1 # << >> /\ hist.m2 # << >> /\ hist.m2 # hist.m1
    /\ hist.nStart = 1
    /\ threads[hist.t0].pc = "dead"
    /\ Alive(inc_update_t)

\* C10: a cycle that computes an empty candidate while a non-empty mapping
\* is bound leaves the bound mapping, the cancellation flag and the running
\* thread as they were, and the process goes on.
C10_EmptyCandidateKeeps ==
    hist.cycles >= 1 /\ hist.m2 = << >> /\ hist.b0 # << >> =>
        /\ mainPc \in { "sleep", "sync" }
        /\ zbxtr2cachet = hist.b0
        /\ event = hist.e0 /\ hist.nSet = 0 /\ hist.nClear = 0
        /\ inc_update_t = hist.t0 /\ hist.nStart = 0
        /\ Alive(hist.t0)
        /\ threads[hist.t0].service_map = hist.b0

\* a cycle with an empty candidate ended with a non-empty mapping bound
C10_Witness ==
    /\ hist.cycles >= 2
    /\ hist.m2 = << >>
    /\ hist.b0 # << >>
    /\ mainPc = "sleep"
    /\ threads[inc_update_t].pc = "tick"

\* C11: when the first cycle computes an empty candidate, the main thread
\* leaves through sys.exit(1) and no watcher thread was or is ever started.
C11_FirstRunEmptyExits ==
    /\ (hist.cycles >= 1 /\ hist.b0 = << >> /\ hist.m2 = << >>)
       => /\ mainPc = "exited"
          /\ hist.cycles = 1
          /\ hist.nSet = 0 /\ hist.nStart = 0
          /\ inc_update_t = 0
          /\ \A th \in ThreadIds : threads[th].pc = "unstarted"
    /\ mainPc = "exited" => hist.b0 = << >> /\ hist.m2 = << >>

\* the process has stopped in its first cycle
C11_Witness ==
    /\ mainPc = "exited"
    /\ hist.cycles = 1
    /\ zbxtr2cachet = << >>

\* C12: a tick step that raises a fault abandons the tick only: the
\* watcher thread stays alive and waits for its next tick.
C12_FaultKeepsWatcher ==
    [][ \A th \in ThreadIds :
          TickStep(th) /\ hist'.last.exc # ""
          => threads'[th].pc = "sleep" ]_vars

\* the step processes one child of a group during the sync
SyncStep == sync.pc = "child" /\ sync' # sync

Dependency == sync.services[sync.s].children[sync.idx]

\* C13: the sync step on a child whose trigger cannot be fetched creates
\* no component, adds no entry to the mapping, and the sync goes on to the
\* siblings.
C13_SyncSkipsUnreadable ==
    [][ ( /\ SyncStep
          /\ Dependency.problem_tags = << >>
          /\ "triggerid" \in DOMAIN Dependency
          /\ zbx_triggers[Dependency.triggerid].fetch # "ok" )
        => /\ sync'.comps = sync.comps
           /\ sync'.data = sync.data
           /\ sync'.pc # "failed" ]_vars

\* C14: over repeated syncs of an unchanged tree no two components share
\* name and group, no two groups share a name, and every later run returns
\* the mapping of the run before it.
C14_SyncIdempotent ==
    /\ \A j, k \in 1..Len(sync.comps) :
          ( /\ sync.comps[j].attributes.name = sync.comps[k].attributes.name
            /\ sync.comps[j].group_id = sync.comps[k].group_id ) => j = k
    /\ \A j, k \in 1..Len(sync.groups) : sync.groups[j] = sync.groups[k] => j = k
    /\ (sync.pc = "done" /\ sync.runs >= 2) => sync.data = sync.prev

\* thread th passes the head of its loop: it starts a tick or skips one
ProbeStep(th) ==
    /\ threads[th].pc = "sleep"
    /\ ~event
    /\ \/ threads'[th] # threads[th]
       \/ hist'.last # hist.last /\ hist'.last = Skipped(th)

\* C15: a tick whose probe finds the monitoring source unreachable reads no
\* trigger or event and leaves the status page alone, and the thread goes
\* on to its next tick.
C15_UnreachableSkipsTick ==
    [][ \A th \in ThreadIds :
          ProbeStep(th) /\ ~zbx_available
          => /\ threads'[th].pc = "sleep" /\ threads'[th].idx = 0
             /\ cachetVars' = cachetVars
             /\ hist'.calls = hist.calls ]_vars

C15_Witness ==
    /\ ~zbx_available
    /\ hist.last.th # 0 /\ hist.last = Skipped(hist.last.th)
    /\ threads[hist.last.th].pc = "sleep"
    /\ \E t \in TriggerIds : zbx_triggers[t].value = "1"

\* C16: the unresolved-incident lookup never returns a Fixed incident, and
\* a tick step on an active trigger whose component has only Fixed
\* incidents creates a new unresolved incident for it, whatever the
\* resolution template.
C16_FixedNotReturned ==
    [][ /\ \A c \in ComponentIds :
              get_unresolved_incident(incidents', c) = NoIncident
              \/ get_unresolved_incident(incidents', c).status # FIXED
        /\ \A th \in ThreadIds :
              ( /\ TickOn(th, "1")
                /\ UnresolvedOf(incidents, Entry(th).component_id) = {}
                /\ \E k \in 1..Len(incidents) :
                      /\ incidents[k].component_id = Entry(th).component_id
                      /\ incidents[k].status = FIXED )
              => /\ Len(incidents') = Len(incidents) + 1
                 /\ incidents'[Len(incidents')].component_id = Entry(th).component_id
                 /\ Unresolved(incidents'[Len(incidents')]) ]_vars

\* the places of the text msg where the block starts
Occurrences(msg, block) ==
    { p \in 1..(Len(msg) - Len(block) + 1) :
        SubSeq(msg, p, p + Len(block) - 1) = block }

\* the blocks of the acknowledgments, given newest first, are each once in
\* the text and in that order
NewestFirst(msg, acks) ==
    /\ \A k \in 1..Len(acks) : Cardinality(Occurrences(msg, AckBlock(acks[k]))) = 1
    /\ \A j, k \in 1..Len(acks) :
          j < k => \A p \in Occurrences(msg, AckBlock(acks[j])) :
                      \A q \in Occurrences(msg, AckBlock(acks[k])) : p < q

\* C17: a tick step on an active trigger whose event carries an
\* acknowledgment not yet in the message of the component's unresolved
\* incident leaves that incident IDENTIFIED with one block for every
\* acknowledgment of the event, each once, the newest first.
C17_AckMerge ==
    [][ \A th \in ThreadIds :
          TickOn(th, "1") /\ DOMAIN zbx_events[Entry(th).triggerid] # {} =>
             LET zbx_event == zbx_events[Entry(th).triggerid]
                 open == UnresolvedOf(incidents, Entry(th).component_id)
             IN  \A k \in open :
                    ( /\ zbx_event.acknowledged = "1"
                      /\ \E a \in 1..Len(zbx_event.acknowledges) :
                            ~Contains(incidents[k].message,
                                      AckBlock(zbx_event.acknowledges[a])) )
                    => /\ incidents'[k].status = IDENTIFIED
                       /\ NewestFirst(incidents'[k].message,
                                      zbx_event.acknowledges) ]_vars

\* C18: a tick step on an active trigger whose component has an unresolved
\* incident: when the computed message differs from the stored one the
\* step stores the message and the status in the incident and sets the
\* component to the computed component status; when they are equal it
\* writes nothing; either way the tick goes on to the entries after it.
C18_UpdateOnChange ==
    [][ \A th \in ThreadIds :
          TickOn(th, "1") =>
             LET i == Entry(th)
                 trigger == get_trigger(i.triggerid)
                 zbx_event == EventOrMock(i.triggerid)
                 m == IncMsg(i, trigger, zbx_event, AckMsg(zbx_event))
             IN  \A k \in UnresolvedOf(incidents, i.component_id) :
                    m.exc = "" =>
                       /\ IF Strip(incidents[k].message) # Strip(m.msg)
                          THEN /\ incidents' =
                                     [ incidents EXCEPT
                                         ![k].message = m.msg,
                                         ![k].status = IncStatus(zbx_event) ]
                               /\ components' =
                                     [ components EXCEPT ![i.component_id] =
                                         StatusForPriority(trigger.priority) ]
                          ELSE /\ UNCHANGED << components, incidents >>
                               /\ hist'.last.calls = NoCalls
                       /\ threads[th].idx < Len(threads[th].service_map)
                          => /\ threads'[th].pc = "tick"
                             /\ threads'[th].idx = threads[th].idx + 1 ]_vars

\* C19: a tick step on an active trigger that has no event, its component
\* without an unresolved incident, creates one incident for the component
\* with status INVESTIGATING, whether the investigating template is set or
\* empty.
C19_NoEventCreates ==
    [][ \A th \in ThreadIds :
          ( /\ TickOn(th, "1")
            /\ zbx_events[Entry(th).triggerid] = NoEvent
            /\ UnresolvedOf(incidents, Entry(th).component_id) = {} )
          => /\ Len(incidents') = Len(incidents) + 1
             /\ incidents'[Len(incidents')].component_id = Entry(th).component_id
             /\ incidents'[Len(incidents')].status = INVESTIGATING ]_vars

\* C20: a tick step that reads the trigger inactive while the component is
\* already OPERATIONAL looks up no incident and writes nothing: the
\* components and the incidents are as before.
C20_OperationalNoop ==
    [][ \A th \in ThreadIds :
          TickOn(th, "0") /\ components[Entry(th).component_id] = OPERATIONAL
          => /\ UNCHANGED << components, incidents >>
             /\ hist'.last.calls = NoCalls
             /\ hist'.last.exc = "" ]_vars

\* the last step left alone an OPERATIONAL component of an inactive
\* trigger, although the lookup would have returned an incident for it
C20_Witness ==
    /\ hist.last.idx >= 1
    /\ hist.last.calls = NoCalls /\ hist.last.exc = ""
    /\ LET i == threads[hist.last.th].service_map[hist.last.idx]
       IN  /\ "triggerid" \in DOMAIN i
           /\ zbx_triggers[i.triggerid].fetch = "ok"
           /\ zbx_triggers[i.triggerid].value = "0"
           /\ components[i.component_id] = OPERATIONAL
           /\ get_unresolved_incident(incidents, i.component_id) # NoIncident

\* the values of the entity's problem tags that are not empty
TagValues(d) ==
    SelectSeq([ k \in 1..Len(d.problem_tags) |-> d.problem_tags[k].value ],
              LAMBDA v : v # << >>)

\* the trigger the claim's precedence binds the entity to (0: none)
ClaimedTrigger(d) ==
    IF TagValues(d) # << >> THEN TriggerOfText(Head(Split(Head(TagValues(d)))))
    ELSE IF "triggerid" \in DOMAIN d THEN d.triggerid
    ELSE 0

\* C21: the sync step on a child whose trigger, if it has one, can be read
\* adds one entry for it: bound to the id parsed from its first non-empty
\* problem-tag value; else, tags absent or all empty, to its direct trigger
\* id; else carrying its service id and a component but no trigger.
C21_Precedence ==
    [][ ( /\ SyncStep
          /\ ClaimedTrigger(Dependency) # 0
             => zbx_triggers[ClaimedTrigger(Dependency)].fetch = "ok" )
        => /\ sync'.pc # "failed"
           /\ Len(sync'.data) = Len(sync.data) + 1
           /\ LET e == sync'.data[Len(sync'.data)] IN
              IF TagValues(Dependency) # << >>
              THEN /\ "triggerid" \in DOMAIN e
                   /\ e.triggerid = << Head(Split(Head(TagValues(Dependency)))) >>
              ELSE IF "triggerid" \in DOMAIN Dependency
              THEN /\ "triggerid" \in DOMAIN e
                   /\ e.triggerid = Dependency.triggerid
              ELSE /\ "triggerid" \notin DOMAIN e
                   /\ "serviceid" \in DOMAIN e
                   /\ e.serviceid = Dependency.serviceid
                   /\ "component_id" \in DOMAIN e ]_vars

\* C22: a watcher thread that finds the cancellation flag set at its loop
\* head terminates without a tick; a thread is started only by the main
\* thread past its wait, the thread held before no longer alive; and the
\* wait of the main thread always ends.
C22_WaitTerminates ==
    /\ [][ \A th \in ThreadIds :
             /\ ( threads[th].pc = "sleep" /\ event /\ threads'[th] # threads[th] )
                => threads'[th].pc = "dead"
             /\ ( threads[th].pc = "unstarted" /\ threads'[th].pc # "unstarted" )
                => mainPc = "start" /\ ~Alive(inc_update_t) ]_vars
    /\ (mainPc = "wait") ~> (mainPc = "clear" /\ ~Alive(inc_update_t))

\* the wait is over for a watcher thread that was cancelled and terminated
C22_Witness ==
    /\ mainPc = "clear"
    /\ event
    /\ hist.nSet = 1
    /\ hist.t0 >= 1
    /\ threads[hist.t0].pc = "dead"
    /\ zbxtr2cachet # threads[hist.t0].service_map

\* C23: no step changes the list a started watcher thread was given while
\* the thread has not terminated: the list holds the entries it held when
\* the thread was started, and every sync makes a list that no name and no
\* thread held before.
C23_SnapshotImmutable ==
    [][ /\ sync.worker.pc \in { "sleep", "tick" }
           => /\ sync'.heap[sync.worker.service_map]
                    = sync.heap[sync.worker.service_map]
              /\ sync.heap[sync.worker.service_map] = sync.worker.bound
        /\ sync.pc = "sync" /\ sync'.pc = "extend"
           => /\ sync'.zbxtr2cachet_new \notin
                    { sync.zbxtr2cachet, sync.worker.service_map }
              /\ sync'.zbxtr2cachet = sync.zbxtr2cachet ]_vars

\* a second list is bound and filled while the watcher started with the
\* first list is inside a tick over it
C23_Witness ==
    /\ sync.worker.pc = "tick"
    /\ sync.worker.idx = 2
    /\ sync.pc = "extend"
    /\ sync.cycles >= 2
    /\ sync.zbxtr2cachet_new # sync.worker.service_map
    /\ sync.heap[sync.zbxtr2cachet_new] # << >>
    /\ sync.heap[sync.worker.service_map] = sync.worker.bound

\* the message the precedence gives: the acknowledgment text if there is
\* any, else the rendered investigating template, else the comments, else
\* the description; an event that is missing has no time to render
ClaimedMsg(i, trigger, zbx_event) ==
    LET ack == AckMsg(zbx_event)
        rendered ==
            IF investigating_tmpl = << >> THEN << >>
            ELSE Format(investigating_tmpl,
                    [ k \in { "{group}", "{component}", "{time}",
                              "{trigger_description}", "{trigger_name}" } |->
                        CASE k = "{group}" ->
                                IF "group_name" \in DOMAIN i
                                THEN << i.group_name >> ELSE << >>
                          [] k = "{component}" -> << i.component_name >>
                          [] k = "{time}" ->
                                IF "clock" \in DOMAIN zbx_event
                                THEN Strftime(zbx_event.clock) ELSE << >>
                          [] k = "{trigger_description}" -> trigger.comments
                          [] OTHER -> trigger.description ])
    IN  IF ack # << >> THEN ack
        ELSE IF rendered # << >> THEN rendered
        ELSE IF trigger.comments # << >> THEN trigger.comments
        ELSE trigger.description

\* C24: a tick step on an active trigger of priority HIGH or above whose
\* component has no incident yet creates the incident with the message of
\* the precedence: acknowledgment text, else rendered investigating
\* template, else trigger comments, else trigger description.
C24_MessagePrecedence ==
    [][ \A th \in ThreadIds :
          ( /\ TickOn(th, "1")
            /\ zbx_triggers[Entry(th).triggerid].priority >= HIGH
            /\ \A k \in 1..Len(incidents) :
                  incidents[k].component_id # Entry(th).component_id )
          => /\ Len(incidents') = Len(incidents) + 1
             /\ incidents'[Len(incidents')].message =
                   ClaimedMsg(Entry(th), get_trigger(Entry(th).triggerid),
                              EventOrMock(Entry(th).triggerid)) ]_vars

\* no watcher thread is inside a tick
TickBoundary == \A th \in ThreadIds : threads[th].pc # "tick"

\* C25: between ticks a component with an unresolved incident is not
\* OPERATIONAL, and the tick step that leaves an OPERATIONAL component of an
\* inactive trigger alone leaves no unresolved incident of it open.
C25_OpenMeansNotOperational ==
    /\ [] ( TickBoundary
            => \A c \in ComponentIds :
                  UnresolvedOf(incidents, c) # {} => components[c] # OPERATIONAL )
    /\ [][ \A th \in ThreadIds :
             TickOn(th, "0") /\ components[Entry(th).component_id] = OPERATIONAL
             => UnresolvedOf(incidents', Entry(th).component_id) = {} ]_vars

\* between ticks: a component that was OPERATIONAL before the engine opened
\* its incident is in outage with the incident unresolved, its trigger
\* already inactive again
C25_Witness ==
    /\ TickBoundary
    /\ hist.ticked
    /\ \E th \in ThreadIds :
          /\ threads[th].pc = "sleep"
          /\ \E k \in 1..Len(threads[th].service_map) :
                LET i == threads[th].service_map[k] IN
                /\ "triggerid" \in DOMAIN i
                /\ zbx_triggers[i.triggerid].value = "0"
                /\ UnresolvedOf(incidents, i.component_id) # {}
                /\ components[i.component_id] = MAJOR_OUTAGE

\* the trigger of entry k of the watcher's mapping is and stays readable
\* and active, Zabbix reachable, and room is left for an incident
StaysActive(k) ==
    LET i == threads[1].service_map[k] IN
    /\ "triggerid" \in DOMAIN i
    /\ zbx_available
    /\ zbx_triggers[i.triggerid].fetch = "ok"
    /\ zbx_triggers[i.triggerid].value = "1"
    /\ Len(incidents) < MaxIncidents

\* the component of entry k has an unresolved incident and is not
\* OPERATIONAL
IncidentOpen(k) ==
    LET i == threads[1].service_map[k] IN
    /\ "component_id" \in DOMAIN i
    /\ UnresolvedOf(incidents, i.component_id) # {}
    /\ components[i.component_id] # OPERATIONAL

\* C26: if the trigger of a mapped entry stays active, whatever its
\* priority, with both sides reachable, then eventually its component has
\* an unresolved incident and is not OPERATIONAL.
C26_ActiveGetsIncident ==
    \A k \in 1..2 : <>[]StaysActive(k) => <>IncidentOpen(k)

\* C27: after a tick step on an active trigger whose component has an
\* unresolved incident, the component has the status mapped from the
\* priority the trigger has at that step.
C27_ComponentFollowsPriority ==
    [][ \A th \in ThreadIds :
          TickOn(th, "1") /\ UnresolvedOf(incidents, Entry(th).component_id) # {}
          => components'[Entry(th).component_id] =
                StatusForPriority(zbx_triggers[Entry(th).triggerid].priority) ]_vars

\* a non-empty mapping is bound and the process has not exited
SnapshotBound == zbxtr2cachet # << >> /\ mainPc # "exited"

\* the thread the main thread holds is alive and runs over the bound mapping
WatcherAlive ==
    Alive(inc_update_t) /\ threads[inc_update_t].service_map = zbxtr2cachet

\* C28: whenever a non-empty mapping is bound and the process runs, a
\* watcher thread over that mapping is alive or is started later; so a
\* watcher that died under an unchanged mapping is replaced.
C28_WatcherKeptAlive == SnapshotBound ~> WatcherAlive

\* C29: the cancellation flag is cleared only by the main thread past its
\* wait, no watcher thread alive; a thread is started with the flag clear;
\* and a thread that terminates at its loop head is the one the main
\* thread held when it set the flag in the cycle under way, never the one
\* started after the clearing.
C29_FlagHandover ==
    [][ /\ ( event /\ ~event' )
           => mainPc = "clear" /\ \A th \in ThreadIds : ~Alive(th)
        /\ \A th \in ThreadIds :
              /\ ( threads[th].pc = "unstarted" /\ threads'[th].pc # "unstarted" )
                 => ~event /\ ~event' /\ hist.nClear = 1
              /\ ( threads[th].pc = "sleep" /\ threads'[th].pc = "dead" )
                 => th = hist.t0 /\ hist.nSet = 1 /\ hist.nStart = 0 ]_vars

\* the thread started after a cancellation of its predecessor is inside
\* its tick, the flag clear
C29_Witness ==
    /\ ~event
    /\ hist.nSet = 1 /\ hist.nClear = 1 /\ hist.nStart = 1
    /\ hist.t0 >= 1
    /\ threads[hist.t0].pc = "dead"
    /\ threads[inc_update_t].pc = "tick"
    /\ inc_update_t = hist.t0 + 1

\* the member of ZabbixServiceStatus that has the delivered value
MemberOfRaw(raw) ==
    CASE raw = "-1" -> "ZabbixServiceStatus.OK"
      [] raw = "0" -> "ZabbixServiceStatus.NOT_CLASSIFIED"
      [] raw = "1" -> "ZabbixServiceStatus.INFORMATION"
      [] raw = "2" -> "ZabbixServiceStatus.WARNING"
      [] raw = "3" -> "ZabbixServiceStatus.AVERAGE"
      [] raw = "4" -> "ZabbixServiceStatus.HIGH"
      [] raw = "5" -> "ZabbixServiceStatus.DISASTER"
      [] OTHER -> "None"

\* C30: a sync step that creates a component for a child of a group gives
\* it the status the mapper has for the child's severity: OPERATIONAL for
\* OK (-1), PERFORMANCE_ISSUES for WARNING (2).
C30_InitialStatusMapped ==
    [][ SyncStep /\ Len(sync'.comps) = Len(sync.comps) + 1
        => sync'.comps[Len(sync'.comps)].attributes.status =
              map_zabbix_status_to_cachet_status(MemberOfRaw(Dependency.status)) ]_vars

====
